---- MODULE Spec2Model ----
(***************************************************************************)
(* A model of the CONTESTER web application: the database seeding routine  *)
(* (app/models.py init_db_data), the page routes (app/routes.py), the task *)
(* lookup helper (app/utils/db.py) and the derived operations of the       *)
(* Submission and BaseModel classes (app/models.py).                       *)
(***************************************************************************)
EXTENDS Integers, Sequences, FiniteSets, TLC

VARIABLES
    db,            \* committed tables: grades, roles, users, topics, tasks
    seedCalls,     \* number of init_db_data calls made so far (application starts)
    session,       \* the client's session: user_id and next_url
    request,       \* the request last handled
    response,      \* the response to it
    tx,            \* per worker: position in init_db_data and its open transaction
    nextId,        \* autoincrement counters of the tables
    test_results,  \* Submission.test_results
    result,        \* what Submission.get_result returned
    source_code,   \* Submission.source_code
    code,          \* what Submission.processed_code returned
    instance,      \* an entity: its class and the state of each attribute
    rendered       \* what its __repr__ returned or raised

webVars == <<db, seedCalls, session, request, response>>
seedVars == <<tx, nextId>>
pureVars == <<test_results, result, source_code, code, instance, rendered>>
vars == <<db, seedCalls, session, request, response, tx, nextId,
          test_results, result, source_code, code, instance, rendered>>

----------------------------------------------------------------------------
(* Bounds of the model *)

MaxSeedCalls == 2
MaxTopics == 2
MaxTasks == 1

(* range(5, 12) of init_db_data *)
GradeFirst == 5
GradeStop == 12

Names == {"Algebra", "Slozhenie"}

\* transliterate.slugify on the names the model uses
slugify(name) ==
    CASE name = "Algebra" -> "algebra"
      [] name = "Slozhenie" -> "slozhenie"
      [] OTHER -> "x"

Slugs == {slugify(n) : n \in Names}

\* grade numbers a request path may carry: two seeded ones and one that is not
ReqGradeNumbers == {GradeFirst, GradeFirst + 1, GradeStop}
\* the grade the administrator files topics under
ContentGradeNumbers == {GradeFirst + 1}

None == <<>>
Some(x) == <<x>>

EmptyDb == [grades |-> <<>>, roles |-> <<>>, users |-> <<>>,
            topics |-> <<>>, tasks |-> <<>>]

Range(s) == {s[i] : i \in DOMAIN s}

----------------------------------------------------------------------------
(* Seeding: init_db_data *)

AdminEmail == "contester@mail.ru"

\* db.session.query(User).count() == 0
NoUserExistsAlways(users) == TRUE

NoUserExists(users) == Len(users) = 0

\* for grade in range(5, 12): db.session.add(Grade(number=grade)); ids from first
SeedGrades(first) ==
    [i \in 1..(GradeStop - GradeFirst) |->
        [id |-> first + i - 1, number |-> GradeFirst + i - 1]]

\* Role(name='user'), Role(name='admin'), in the order added
SeedRoles(first) ==
    <<[id |-> first, name |-> "user"], [id |-> first + 1, name |-> "admin"]>>

\* db.session.query(Role).filter(Role.name == 'admin'): the rows first() may return
AdminRoles(roles) == {r \in Range(roles) : r.name = "admin"}

\* User(name=..., email='contester@mail.ru', verified=True, role_id=..., ...)
AdminUser(id, role_id) ==
    [id |-> id, name |-> "Admin", surname |-> "Adminovich", email |-> AdminEmail,
     verified |-> TRUE, role_id |-> role_id, grade_id |-> None,
     grade_letter |-> None, hashed_password |-> "hash(ADMIN_PASSWORD)"]

\* init_db_data() run alone on the committed database: the databases it may leave
init_db_data(dbv) ==
    IF NoUserExists(dbv.users)
    THEN LET grades == dbv.grades \o SeedGrades(Len(dbv.grades) + 1)
             roles == dbv.roles \o SeedRoles(Len(dbv.roles) + 1)
         IN {[dbv EXCEPT
                !.grades = grades,
                !.roles = roles,
                !.users = dbv.users \o
                    <<AdminUser(Len(dbv.users) + 1, admin_role.id)>>] :
               admin_role \in AdminRoles(roles)}
    ELSE {dbv}

\* the application starts (again) and calls init_db_data
InitDbData ==
    /\ seedCalls < MaxSeedCalls
    /\ seedCalls' = seedCalls + 1
    /\ db' \in init_db_data(db)
    /\ UNCHANGED <<session, request, response, seedVars, pureVars>>

----------------------------------------------------------------------------
(* Administration: content is filed by the admin blueprint *)

AddTopic ==
    /\ seedCalls >= 1
    /\ Len(db.topics) < MaxTopics
    /\ \E grade \in {g \in Range(db.grades) : g.number \in ContentGradeNumbers},
          name \in Names :
         db' = [db EXCEPT !.topics = @ \o
                  <<[id |-> Len(db.topics) + 1, grade_id |-> grade.id,
                     name |-> name, translit_name |-> slugify(name)]>>]
    /\ UNCHANGED <<seedCalls, session, request, response, seedVars, pureVars>>

AddTask ==
    /\ seedCalls >= 1
    /\ Len(db.tasks) < MaxTasks
    /\ \E topic \in Range(db.topics), name \in Names :
         db' = [db EXCEPT !.tasks = @ \o
                  <<[id |-> Len(db.tasks) + 1, topic_id |-> topic.id,
                     name |-> name, translit_name |-> slugify(name)]>>]
    /\ UNCHANGED <<seedCalls, session, request, response, seedVars, pureVars>>

----------------------------------------------------------------------------
(* Requests and responses *)

Req(route, method, g, t, k) ==
    [route |-> route, method |-> method, grade_number |-> g,
     topic_translit_name |-> t, task_translit_name |-> k]

NoRequest == Req("", "", 0, "", "")

\* request.path: the URL rule and its arguments, without the method
Path(req) == [route |-> req.route, grade_number |-> req.grade_number,
              topic_translit_name |-> req.topic_translit_name,
              task_translit_name |-> req.task_translit_name]

Resp(status, template, location, error, grade, topic, task) ==
    [status |-> status, template |-> template, location |-> location,
     error |-> error, grade |-> grade, topic |-> topic, task |-> task]

NoResponse == Resp(0, "", "", "", None, None, None)

\* render_template(template, grade=..., topic=..., task=...)
render_template(template, grade, topic, task) ==
    Resp(200, template, "", "", grade, topic, task)

\* redirect(url_for(endpoint))
redirect(endpoint) == Resp(302, "", endpoint, "", None, None, None)

\* abort(404), raised by first_or_404
NotFound == Resp(404, "", "", "NotFound", None, None, None)

\* an exception the view does not handle ends the request with status 500
ServerError(exception) == Resp(500, "", "", exception, None, None, None)

\* the names a model class defines beside its columns and relationships
Methods(class) ==
    CASE class = "Grade" -> {"__repr__", "_repr"}
      [] class = "Topic" -> {"set_translit_name", "__repr__", "_repr"}
      [] class = "Task" -> {"set_translit_name", "__repr__", "_repr"}
      [] OTHER -> {"__repr__", "_repr"}

----------------------------------------------------------------------------
(* Queries.  A query's rows are a sequence; first() may return any of them, *)
(* as the query states no order.                                            *)

GradesByNumber(dbv, grade_number) ==
    SelectSeq(dbv.grades, LAMBDA g : g.number = grade_number)

TopicsBySlug(dbv, topic_translit_name) ==
    SelectSeq(dbv.topics, LAMBDA t : t.translit_name = topic_translit_name)

TasksBySlug(dbv, task_translit_name) ==
    SelectSeq(dbv.tasks, LAMBDA t : t.translit_name = task_translit_name)

\* first_or_404(): the rows it may return; none when it aborts with 404
first_or_404(rows) == Range(rows)

----------------------------------------------------------------------------
(* app/routes.py *)

\* grade_page(grade_number): the responses it may end in
grade_page(dbv, grade_number) ==
    LET grades == first_or_404(GradesByNumber(dbv, grade_number))
    IN IF grades = {} THEN {NotFound}
       ELSE {IF "get_topics" \in Methods("Grade")
             THEN render_template("grade.html", Some(grade), None, None)
             ELSE ServerError("AttributeError") : grade \in grades}

\* topic_page with first() in place of first_or_404() for the topic: a missing
\* topic is None, and the call on it raises
topic_page_first(dbv, grade_number, topic_translit_name) ==
    LET grades == first_or_404(GradesByNumber(dbv, grade_number))
    IN IF grades = {} THEN {NotFound}
       ELSE {ServerError("AttributeError")}

\* topic_page(grade_number, topic_translit_name)
topic_page(dbv, grade_number, topic_translit_name) ==
    LET grades == first_or_404(GradesByNumber(dbv, grade_number))
        topics == first_or_404(TopicsBySlug(dbv, topic_translit_name))
    IN IF grades = {} THEN {NotFound}
       ELSE IF topics = {} THEN {NotFound}
       ELSE {IF "get_tasks" \in Methods("Topic")
             THEN render_template("topic.html", Some(grade), Some(topic), None)
             ELSE ServerError("AttributeError") :
                 grade \in grades, topic \in topics}

\* task_page with the topic and the task looked up under their parents
task_page_joined(dbv, grade_number, topic_translit_name, task_translit_name) ==
    LET grades == first_or_404(GradesByNumber(dbv, grade_number))
    IN IF grades = {} THEN {NotFound}
       ELSE LET found ==
                  {render_template("task.html", Some(grade), Some(topic), Some(task)) :
                     grade \in grades,
                     topic \in {t \in Range(TopicsBySlug(dbv, topic_translit_name)) :
                                  \E g \in grades : t.grade_id = g.id},
                     task \in {t \in Range(TasksBySlug(dbv, task_translit_name)) :
                                 \E p \in Range(TopicsBySlug(dbv, topic_translit_name)) :
                                     t.topic_id = p.id}}
            IN IF found = {} THEN {NotFound} ELSE found

\* task_page(grade_number, topic_translit_name, task_translit_name)
task_page(dbv, grade_number, topic_translit_name, task_translit_name) ==
    LET grades == first_or_404(GradesByNumber(dbv, grade_number))
        topics == first_or_404(TopicsBySlug(dbv, topic_translit_name))
        tasks == first_or_404(TasksBySlug(dbv, task_translit_name))
    IN IF grades = {} THEN {NotFound}
       ELSE IF topics = {} THEN {NotFound}
       ELSE IF tasks = {} THEN {NotFound}
       ELSE {render_template("task.html", Some(grade), Some(topic), Some(task)) :
                 grade \in grades, topic \in topics, task \in tasks}

----------------------------------------------------------------------------
(* app/utils/db.py *)

\* get_task with the tables joined on their foreign keys
get_task_joined(dbv, grade_number, topic_translit_name, task_translit_name) ==
    LET rows == {r \in Range(dbv.tasks) \X Range(dbv.grades) \X Range(dbv.topics) :
                   /\ r[2].number = grade_number
                   /\ r[3].translit_name = topic_translit_name
                   /\ r[1].translit_name = task_translit_name
                   /\ r[3].grade_id = r[2].id
                   /\ r[1].topic_id = r[3].id}
    IN IF rows = {} THEN {NotFound}
       ELSE {Resp(200, "", "", "", None, None, Some(r[1])) : r \in rows}

\* get_task: query(Task).filter(Grade.number == ..., Topic.translit_name == ...,
\* Task.translit_name == ...) selects from the product of tasks, grades and topics
get_task(dbv, grade_number, topic_translit_name, task_translit_name) ==
    LET rows == {r \in Range(dbv.tasks) \X Range(dbv.grades) \X Range(dbv.topics) :
                   /\ r[2].number = grade_number
                   /\ r[3].translit_name = topic_translit_name
                   /\ r[1].translit_name = task_translit_name}
    IN IF rows = {} THEN {NotFound}
       ELSE {Resp(200, "", "", "", None, None, Some(r[1])) : r \in rows}

----------------------------------------------------------------------------
(* Sessions and the login-required route *)

NewSession == [user_id |-> None, next_url |-> None]

\* load_user(user_id): db.session.query(User).get(user_id)
load_user(dbv, user_id) == {u \in Range(dbv.users) : Some(u.id) = user_id}

\* current_user.is_authenticated: the session's user_id loads a user
is_authenticated(sess, dbv) == load_user(dbv, sess.user_id) # {}

HomePath == Path(Req("home_page", "GET", 0, "", ""))
ProfilePath == Path(Req("profile_page", "GET", 0, "", ""))

\* the unauthorized handler without the assignment to the session
unauthorized_callback_forgets(sess, req) ==
    [session |-> sess, response |-> redirect("auth.login_page")]

\* unauthorized_callback(): session['next_url'] = request.path; redirect to login
unauthorized_callback(sess, req) ==
    [session |-> [sess EXCEPT !.next_url = Some(Path(req))],
     response |-> redirect("auth.login_page")]

\* profile_page under @login_required
profile_page(sess, dbv, req) ==
    IF is_authenticated(sess, dbv)
    THEN [session |-> sess,
          response |-> render_template("profile.html", None, None, None)]
    ELSE unauthorized_callback(sess, req)

\* the next_url decorator of app.utils.routes: arriving at the stashed path
\* after login consumes it, any other page records its own path
next_url(sess, dbv, req) ==
    IF sess.next_url = Some(Path(req)) /\ is_authenticated(sess, dbv)
    THEN [sess EXCEPT !.next_url = None]
    ELSE [sess EXCEPT !.next_url = Some(Path(req))]

Serve(req, sess, resp) ==
    /\ seedCalls >= 1
    /\ request' = req
    /\ session' = sess
    /\ response' = resp
    /\ UNCHANGED <<db, seedCalls, seedVars, pureVars>>

HomePage ==
    LET req == Req("home_page", "GET", 0, "", "")
    IN Serve(req, next_url(session, db, req),
             render_template("home.html", None, None, None))

GradePage ==
    \E g \in ReqGradeNumbers :
        LET req == Req("grade_page", "GET", g, "", "")
        IN \E resp \in grade_page(db, g) :
               Serve(req, next_url(session, db, req), resp)

TopicPage ==
    \E g \in ReqGradeNumbers, t \in Slugs :
        LET req == Req("topic_page", "GET", g, t, "")
        IN \E resp \in topic_page(db, g, t) :
               Serve(req, next_url(session, db, req), resp)

TaskPage ==
    \E g \in ReqGradeNumbers, t \in Slugs, k \in Slugs :
        LET req == Req("task_page", "GET", g, t, k)
        IN \E resp \in task_page(db, g, t, k) :
               Serve(req, next_url(session, db, req), resp)

\* a caller outside the routes (the API blueprint) looks a task up
GetTask ==
    \E g \in ReqGradeNumbers, t \in Slugs, k \in Slugs :
        \E resp \in get_task(db, g, t, k) :
            Serve(Req("get_task", "", g, t, k), session, resp)

ProfilePage ==
    \E method \in {"GET", "POST"} :
        LET req == Req("profile_page", method, 0, "", "")
            out == profile_page(session, db, req)
        IN Serve(req, out.session, out.response)

\* auth blueprint: a successful login establishes the session's identity and
\* returns the requester to the stashed destination
Login ==
    \E user \in Range(db.users) :
        Serve(Req("auth.login_page", "POST", 0, "", ""),
              [session EXCEPT !.user_id = Some(user.id)],
              redirect(IF session.next_url = None THEN "home_page"
                       ELSE session.next_url[1].route))

\* auth blueprint: logout drops the session's identity
Logout ==
    Serve(Req("auth.logout", "GET", 0, "", ""),
          [session EXCEPT !.user_id = None], redirect("home_page"))

----------------------------------------------------------------------------
(* The parts of the state a specification does not use stay as they start *)

WebIdle ==
    /\ db = EmptyDb
    /\ seedCalls = 0
    /\ session = NewSession
    /\ request = NoRequest
    /\ response = NoResponse

SeedIdle ==
    /\ tx = <<>>
    /\ nextId = <<>>

ResultIdle ==
    /\ test_results = <<>>
    /\ result = None

CodeIdle ==
    /\ source_code = <<>>
    /\ code = None

ReprIdle ==
    /\ instance = <<>>
    /\ rendered = None

PureIdle == ResultIdle /\ CodeIdle /\ ReprIdle

----------------------------------------------------------------------------
(* The application: seeding at each start, content management, browsing *)

Init ==
    /\ WebIdle
    /\ SeedIdle
    /\ PureIdle

Next ==
    \/ InitDbData
    \/ AddTopic
    \/ AddTask
    \/ HomePage
    \/ GradePage
    \/ TopicPage
    \/ TaskPage

Spec == Init /\ [][Next]_vars

----------------------------------------------------------------------------
(* The task lookup helper, called on the content database *)

LookupNext ==
    \/ InitDbData
    \/ AddTopic
    \/ AddTask
    \/ GetTask

SpecLookup == Init /\ [][LookupNext]_vars

----------------------------------------------------------------------------
(* One client's session against the started application *)

AuthInit ==
    /\ db \in init_db_data(EmptyDb)
    /\ seedCalls = 1
    /\ session = NewSession
    /\ request = NoRequest
    /\ response = NoResponse
    /\ SeedIdle
    /\ PureIdle

AuthNext ==
    \/ HomePage
    \/ GradePage
    \/ TopicPage
    \/ TaskPage
    \/ ProfilePage
    \/ Login
    \/ Logout

SpecAuth == AuthInit /\ [][AuthNext]_vars

----------------------------------------------------------------------------
(* Properties of the seeding routine, the routes and the lookup helper *)

GradeExists(dbv, g) == \E row \in Range(dbv.grades) : row.number = g
TopicExists(dbv, t) == \E row \in Range(dbv.topics) : row.translit_name = t
TaskExists(dbv, k) == \E row \in Range(dbv.tasks) : row.translit_name = k

ExactlySeeded(dbv) ==
    /\ Len(dbv.grades) = 7
    /\ \A n \in 5..11 : Cardinality({i \in DOMAIN dbv.grades : dbv.grades[i].number = n}) = 1
    /\ Len(dbv.roles) = 2
    /\ {r.name : r \in Range(dbv.roles)} = {"user", "admin"}
    /\ Len(dbv.users) = 1
    /\ dbv.users[1].email = AdminEmail
    /\ \E r \in Range(dbv.roles) : r.name = "admin" /\ dbv.users[1].role_id = r.id

(* C1: a call of init_db_data on a database with no users, grades or roles    *)
(* leaves exactly 7 grades numbered 5..11, the roles 'user' and 'admin', and  *)
(* one user, the admin, whose role_id is the admin role's id; a call made     *)
(* while a user exists adds no row to any table.                              *)
C1_SeedingIdempotence ==
    [][seedCalls' # seedCalls =>
         /\ (Len(db.users) = 0 /\ Len(db.grades) = 0 /\ Len(db.roles) = 0)
                => ExactlySeeded(db')
         /\ Len(db.users) >= 1 => db' = db]_vars

C1_Witness == seedCalls = 2 /\ ExactlySeeded(db)

(* C5: the grade, topic and task pages end in 404, never in a server error or *)
(* a rendered page, whenever a lookup made from the path finds no row.        *)
C5_NotFoundRouting ==
    \A g \in ReqGradeNumbers, t \in Slugs, k \in Slugs :
        /\ ~GradeExists(db, g) => grade_page(db, g) = {NotFound}
        /\ (~GradeExists(db, g) \/ ~TopicExists(db, t))
               => topic_page(db, g, t) = {NotFound}
        /\ (~GradeExists(db, g) \/ ~TopicExists(db, t) \/ ~TaskExists(db, k))
               => task_page(db, g, t, k) = {NotFound}

C5_Witness ==
    /\ request.route = "topic_page"
    /\ GradeExists(db, request.grade_number)
    /\ ~TopicExists(db, request.topic_translit_name)
    /\ Len(db.topics) > 0
    /\ response = NotFound

(* C7: when the grade exists the grade page renders the topic list, and when  *)
(* the topic exists too the topic page renders the task list; neither request *)
(* ends in an error response.                                                 *)
C7_SuccessfulBrowsing ==
    [][(request' # request \/ response' # response) =>
         /\ (request'.route = "grade_page" /\ GradeExists(db, request'.grade_number))
               => (response'.status = 200 /\ response'.template = "grade.html")
         /\ (/\ request'.route = "topic_page"
             /\ GradeExists(db, request'.grade_number)
             /\ TopicExists(db, request'.topic_translit_name))
               => (response'.status = 200 /\ response'.template = "topic.html")]_vars

(* C8: get_task issues a not-found response exactly when the task page's      *)
(* three lookups do, and otherwise returns a Task with the requested slug.    *)
C8_SameLookup ==
    \A g \in ReqGradeNumbers, t \in Slugs, k \in Slugs :
        /\ get_task(db, g, t, k) = {NotFound} <=> task_page(db, g, t, k) = {NotFound}
        /\ NotFound \in get_task(db, g, t, k) <=> NotFound \in task_page(db, g, t, k)
        /\ \A r \in get_task(db, g, t, k) :
               r # NotFound =>
                   /\ r.task # None
                   /\ r.task[1] \in Range(db.tasks)
                   /\ r.task[1].translit_name = k

C8_Witness ==
    /\ request.route = "get_task"
    /\ response.status = 200
    /\ \E topic \in Range(db.topics) :
           /\ topic.id = response.task[1].topic_id
           /\ topic.translit_name # request.topic_translit_name

(* C9: the topic and task pages look Grade, Topic and Task up independently:  *)
(* whenever each has a matching row the page is not a 404, and the task page  *)
(* may be rendered from any such rows, whatever their foreign keys.           *)
C9_LookupIndependence ==
    \A g \in ReqGradeNumbers, t \in Slugs, k \in Slugs :
        \A grade \in {r \in Range(db.grades) : r.number = g},
           topic \in {r \in Range(db.topics) : r.translit_name = t} :
            /\ NotFound \notin topic_page(db, g, t)
            /\ \A task \in {r \in Range(db.tasks) : r.translit_name = k} :
                   /\ NotFound \notin task_page(db, g, t, k)
                   /\ render_template("task.html", Some(grade), Some(topic), Some(task))
                          \in task_page(db, g, t, k)

C9_Witness ==
    /\ request.route = "task_page"
    /\ response.status = 200
    /\ response.template = "task.html"
    /\ response.topic[1].grade_id # response.grade[1].id
    /\ response.task[1].topic_id # response.topic[1].id

(* C4: a request to the profile page without an authenticated session stores *)
(* that request's path in the session under next_url, over any earlier value, *)
(* and is answered by a redirect to auth.login_page; the profile page is not  *)
(* rendered.                                                                  *)
C4_UnauthorizedPolicy ==
    [][(request'.route = "profile_page" /\ ~is_authenticated(session, db)) =>
         /\ session'.next_url = Some(Path(request'))
         /\ session'.user_id = session.user_id
         /\ response' = redirect("auth.login_page")
         /\ response'.template # "profile.html"]_vars

C4_Witness ==
    /\ request.route = "profile_page"
    /\ request.method = "POST"
    /\ ~is_authenticated(session, db)
    /\ session.next_url = Some(ProfilePath)
    /\ response = redirect("auth.login_page")

----------------------------------------------------------------------------
(* Submission.get_result *)

MaxResults == 3

Messages == {"Wrong answer on case 2", "Timeout"}

\* TestResult rows: success and message
TestResults == [success : BOOLEAN, message : Messages]

SeqsUpTo(S, n) == UNION {[1..m -> S] : m \in 0..n}

\* bool(obj) of a model instance: the classes define neither __bool__ nor __len__
bool(obj) == TRUE

\* any(iterable)
any(xs) == \E i \in DOMAIN xs : bool(xs[i])

\* get_result answering with the last failed result
get_result_last(results) ==
    LET failed_tests == SelectSeq(results, LAMBDA r : ~r.success)
    IN IF any(failed_tests)
       THEN [success |-> FALSE, message |-> failed_tests[Len(failed_tests)].message]
       ELSE [success |-> TRUE, message |-> "Success"]

\* Submission.get_result(self)
get_result(results) ==
    LET failed_tests == SelectSeq(results, LAMBDA r : ~r.success)
    IN IF any(failed_tests)
       THEN [success |-> FALSE, message |-> failed_tests[1].message]
       ELSE [success |-> TRUE, message |-> "Success"]

ResultInit ==
    /\ WebIdle /\ SeedIdle /\ CodeIdle /\ ReprIdle
    /\ test_results \in SeqsUpTo(TestResults, MaxResults)
    /\ result = None

GetResult ==
    /\ result' = Some(get_result(test_results))
    /\ UNCHANGED <<webVars, seedVars, test_results, source_code, code, instance, rendered>>

SpecResult == ResultInit /\ [][GetResult]_vars

(* C2: get_result returns success False with the message of the first result, *)
(* in list order, whose success is false, and success True with the message   *)
(* 'Success' when no result failed, the empty list included.                  *)
C2_FirstFailure ==
    result # None =>
        LET failing == {i \in DOMAIN test_results : test_results[i].success = FALSE}
        IN IF failing # {}
           THEN \E i \in failing :
                    /\ \A j \in failing : i <= j
                    /\ result[1] = [success |-> FALSE,
                                    message |-> test_results[i].message]
           ELSE result[1] = [success |-> TRUE, message |-> "Success"]

C2_Witness ==
    /\ result # None
    /\ Len(test_results) = 3
    /\ test_results[1].success
    /\ ~test_results[2].success
    /\ ~test_results[3].success
    /\ test_results[2].message # test_results[3].message
    /\ result[1].message = test_results[2].message

----------------------------------------------------------------------------
(* Submission.processed_code *)

MaxCodeLen == 3

\* characters, by name
DQ == "double quote"
SQ == "single quote"
BT == "backtick"
BS == "backslash"

\* the characters of source_code: the three quotes, the backslash, a letter
Chars == {DQ, SQ, BT, BS, "a"}

Concat(seqs) ==
    LET RECURSIVE cat(_)
        cat(i) == IF i > Len(seqs) THEN <<>> ELSE seqs[i] \o cat(i + 1)
    IN cat(1)

\* repr(str): single quotes, unless the string holds a single quote and no
\* double quote; the quote in use and the backslash are escaped
repr(str) ==
    LET quote == IF SQ \in Range(str) /\ DQ \notin Range(str) THEN DQ ELSE SQ
        esc(c) == IF c = BS \/ c = quote THEN <<BS, c>> ELSE <<c>>
    IN <<quote>> \o Concat([i \in DOMAIN str |-> esc(str[i])]) \o <<quote>>

\* str.replace(character, replacement)
replace(str, character, replacement) ==
    Concat([i \in DOMAIN str |-> IF str[i] = character THEN replacement ELSE <<str[i]>>])

\* the replacements dictionary, in the order of its keys
replacements == << <<DQ, <<BS, DQ>> >>, <<SQ, <<BS, SQ>> >>, <<BT, <<BS, BT>> >> >>

\* Submission.processed_code(self)
processed_code(source) ==
    LET stripped == SubSeq(repr(source), 2, Len(repr(source)) - 1)
        RECURSIVE loop(_, _)
        loop(c, i) ==
            IF i > Len(replacements) THEN c
            ELSE loop(replace(c, replacements[i][1], replacements[i][2]), i + 1)
    IN loop(stripped, 1)

CodeInit ==
    /\ WebIdle /\ SeedIdle /\ ResultIdle /\ ReprIdle
    /\ source_code \in SeqsUpTo(Chars, MaxCodeLen)
    /\ code = None

ProcessedCode ==
    /\ code' = Some(processed_code(source_code))
    /\ UNCHANGED <<webVars, seedVars, test_results, result, source_code, instance, rendered>>

SpecCode == CodeInit /\ [][ProcessedCode]_vars

\* the number of backslashes that end the first n characters of str
BackslashesBefore(str, n) ==
    LET RECURSIVE count(_)
        count(i) == IF i >= 1 /\ str[i] = BS THEN 1 + count(i - 1) ELSE 0
    IN count(n)

(* C3: for a source_code holding a double quote, a single quote and a         *)
(* backtick, processed_code has each of those characters preceded by exactly  *)
(* one backslash, and none of them is left unescaped.                         *)
C3_ProcessedCodeEscaping ==
    (code # None /\ {DQ, SQ, BT} \subseteq Range(source_code)) =>
        \A i \in DOMAIN code[1] :
            code[1][i] \in {DQ, SQ, BT} => BackslashesBefore(code[1], i - 1) = 1

----------------------------------------------------------------------------
(* BaseModel._repr and the __repr__ methods *)

Classes == {"Example", "User", "Grade", "Role", "Topic", "Task", "Test",
            "Submission", "TestResult", "Report"}

Arg(key, kind) == [key |-> key, kind |-> kind]

\* the keyword arguments each __repr__ passes to _repr, in order.  kind:
\*   column        an expression over the instance's own columns
\*   relationship  the related object itself, formatted inside _repr
\*   through       an expression __repr__ evaluates through a relationship
\*   undefined     an attribute the class does not define
ReprArgs(class) ==
    CASE class = "User" ->
           <<Arg("id", "column"), Arg("name", "column"), Arg("grade", "through"),
             Arg("email", "column"), Arg("role", "relationship")>>
      [] class = "Grade" -> <<Arg("number", "column")>>
      [] class = "Role" -> <<Arg("name", "column")>>
      [] class = "Topic" ->
           <<Arg("id", "column"), Arg("name", "column"), Arg("grade", "relationship")>>
      [] class = "Task" ->
           <<Arg("id", "column"), Arg("name", "column"), Arg("topic", "through"),
             Arg("grade", "through")>>
      [] class = "Test" ->
           <<Arg("id", "column"), Arg("task", "relationship"), Arg("data", "column")>>
      [] class = "Submission" ->
           <<Arg("id", "column"), Arg("user", "undefined"),
             Arg("task", "relationship"), Arg("result", "through")>>
      [] class = "TestResult" ->
           <<Arg("id", "column"), Arg("test", "relationship"),
             Arg("submission", "relationship"), Arg("message", "column")>>
      [] class = "Report" ->
           <<Arg("user", "relationship"), Arg("task", "relationship"),
             Arg("text", "column")>>
      [] OTHER -> <<Arg("id", "column")>>

\* what evaluating an argument can meet:
\*   loaded       the expression has a value whose repr() succeeds
\*   detached     the instance is detached and the attribute is not loaded:
\*                the access raises DetachedInstanceError
\*   unprintable  the related object is loaded, its own repr() raises
\*                DetachedInstanceError
\*   undefined    the access raises AttributeError
Statuses(kind) ==
    CASE kind = "column" -> {"loaded", "detached"}
      [] kind = "through" -> {"loaded", "detached"}
      [] kind = "relationship" -> {"loaded", "detached", "unprintable"}
      [] OTHER -> {"undefined"}

Instances ==
    UNION {{[class |-> c, attrs |-> a] :
              a \in {f \in [DOMAIN ReprArgs(c) -> {"loaded", "detached", "unprintable", "undefined"}] :
                       \A i \in DOMAIN f : f[i] \in Statuses(ReprArgs(c)[i].kind)}} :
             c \in Classes}

Returned(form, class, field_strings) ==
    [outcome |-> "returned", exception |-> "", form |-> form, class |-> class,
     field_strings |-> field_strings]

Raised(exception) ==
    [outcome |-> "raised", exception |-> exception, form |-> "", class |-> "",
     field_strings |-> <<>>]

\* BaseModel._repr(self, **fields): fields[i] tells whether repr() of the value works
BaseModel_repr(class, keys, printable) ==
    LET field_strings ==
            [i \in DOMAIN keys |->
                IF printable[i] THEN <<keys[i], "value">>
                ELSE <<keys[i], "DetachedInstanceError">>]
        at_least_one_attached_attribute == \E i \in DOMAIN keys : printable[i]
    IN IF at_least_one_attached_attribute
       THEN Returned("fields", class, field_strings)
       ELSE Returned("identity", class, <<>>)

\* <Class>.__repr__(self): the arguments are evaluated, in order, before _repr runs
Model_repr(inst) ==
    LET args == ReprArgs(inst.class)
        raising == {i \in DOMAIN args : inst.attrs[i] \in {"detached", "undefined"}}
    IN IF raising # {}
       THEN LET first == CHOOSE i \in raising : \A j \in raising : i <= j
            IN Raised(IF inst.attrs[first] = "undefined" THEN "AttributeError"
                      ELSE "DetachedInstanceError")
       ELSE BaseModel_repr(inst.class, [i \in DOMAIN args |-> args[i].key],
                    [i \in DOMAIN args |-> inst.attrs[i] = "loaded"])

ReprInit ==
    /\ WebIdle /\ SeedIdle /\ ResultIdle /\ CodeIdle
    /\ instance \in Instances
    /\ rendered = None

Repr ==
    /\ rendered' = Some(Model_repr(instance))
    /\ UNCHANGED <<webVars, seedVars, test_results, result, source_code, code, instance>>

SpecRepr == ReprInit /\ [][Repr]_vars

(* C6: __repr__ of an instance whose relationship cannot be resolved because  *)
(* the instance is detached returns a string holding                          *)
(* '<field>=DetachedInstanceError' for that field and never raises; when no   *)
(* field can be resolved it returns the identity-only form.                   *)
C6_ReprResilience ==
    rendered # None =>
        LET args == ReprArgs(instance.class)
            unresolved == {i \in DOMAIN args :
                             /\ args[i].kind \in {"relationship", "through"}
                             /\ instance.attrs[i] = "detached"}
        IN /\ unresolved # {} =>
                 /\ rendered[1].outcome = "returned"
                 /\ \A i \in unresolved :
                        <<args[i].key, "DetachedInstanceError">>
                            \in Range(rendered[1].field_strings)
           /\ (\A i \in DOMAIN args : instance.attrs[i] # "loaded") =>
                 /\ rendered[1].outcome = "returned"
                 /\ rendered[1].form = "identity"

----------------------------------------------------------------------------
(* init_db_data called by concurrent workers.  Each call runs in its own      *)
(* transaction: it reads the committed rows and its own pending ones, and its *)
(* rows reach the database when it commits.                                   *)

Workers == {"w1", "w2"}

\* calls each worker makes at most
MaxWorkerCalls == 2

\* a worker between calls, with the number of calls it has made
IdleTx(calls) == [pc |-> "idle", calls |-> calls, grades |-> <<>>, roles |-> <<>>,
                  users |-> <<>>, role_id |-> None]

\* users.email is unique: no constraint at all
EmailTakenNever(users, email) == FALSE

\* users.email is unique: a row with this email stands in the way
EmailTaken(users, email) == \E u \in Range(users) : u.email = email

\* line 280: the count of committed users decides whether the call seeds
Begin(w) ==
    /\ tx[w].pc = "idle"
    /\ tx[w].calls < MaxWorkerCalls
    /\ seedCalls' = seedCalls + 1
    /\ tx' = [tx EXCEPT ![w].calls = @ + 1,
                        ![w].pc = IF NoUserExists(db.users) THEN "add" ELSE "done"]
    /\ UNCHANGED <<db, nextId, session, request, response, pureVars>>

\* lines 281-296: the grades and roles are added; the query for the admin role
\* flushes them into the transaction and reads them back with the committed roles
Flush(w) ==
    /\ tx[w].pc = "add"
    /\ LET grades == SeedGrades(nextId.grades)
           roles == SeedRoles(nextId.roles)
       IN /\ nextId' = [nextId EXCEPT !.grades = @ + Len(grades),
                                      !.roles = @ + Len(roles)]
          /\ \E admin_role \in AdminRoles(db.roles \o roles) :
                tx' = [tx EXCEPT ![w].pc = "insert",
                                ![w].grades = grades,
                                ![w].roles = roles,
                                ![w].role_id = Some(admin_role.id)]
    /\ UNCHANGED <<db, seedCalls, session, request, response, pureVars>>

\* lines 291-303: commit() flushes the admin user.  The insert waits while
\* another transaction holds the same email uncommitted, and fails, rolling the
\* transaction back, when a committed row holds it
InsertUser(w) ==
    /\ tx[w].pc = "insert"
    /\ \A o \in Workers \ {w} : ~EmailTaken(tx[o].users, AdminEmail)
    /\ IF EmailTaken(db.users, AdminEmail)
       THEN /\ tx' = [tx EXCEPT ![w] = [IdleTx(tx[w].calls) EXCEPT !.pc = "failed"]]
            /\ nextId' = nextId
       ELSE /\ tx' = [tx EXCEPT ![w].pc = "commit",
                                ![w].users = <<AdminUser(nextId.users, tx[w].role_id[1])>>]
            /\ nextId' = [nextId EXCEPT !.users = @ + 1]
    /\ UNCHANGED <<db, seedCalls, session, request, response, pureVars>>

\* line 303: the transaction's rows are committed as one unit
Commit(w) ==
    /\ tx[w].pc = "commit"
    /\ db' = [db EXCEPT !.grades = @ \o tx[w].grades,
                        !.roles = @ \o tx[w].roles,
                        !.users = @ \o tx[w].users]
    /\ tx' = [tx EXCEPT ![w] = [IdleTx(tx[w].calls) EXCEPT !.pc = "done"]]
    /\ UNCHANGED <<nextId, seedCalls, session, request, response, pureVars>>

\* the call is over (it returned, or raised IntegrityError); the worker may call again
Return(w) ==
    /\ tx[w].pc \in {"done", "failed"}
    /\ tx' = [tx EXCEPT ![w].pc = "idle"]
    /\ UNCHANGED <<db, nextId, seedCalls, session, request, response, pureVars>>

SeedInit ==
    /\ WebIdle
    /\ PureIdle
    /\ tx = [w \in Workers |-> IdleTx(0)]
    /\ nextId = [grades |-> 1, roles |-> 1, users |-> 1]

SeedNext ==
    \E w \in Workers :
        \/ Begin(w)
        \/ Flush(w)
        \/ InsertUser(w)
        \/ Commit(w)
        \/ Return(w)

SpecSeed == SeedInit /\ [][SeedNext]_vars

(* C10: with init_db_data run by interleaved workers, each in its own         *)
(* transaction and under the unique constraint on users.email, the committed  *)
(* database holds no seed rows or exactly 7 grades, 2 roles and 1 user.       *)
C10_ConcurrentSeeding ==
    \/ Len(db.grades) = 0 /\ Len(db.roles) = 0 /\ Len(db.users) = 0
    \/ ExactlySeeded(db)

C10_Witness ==
    /\ ExactlySeeded(db)
    /\ \E w \in Workers : tx[w].pc = "failed"

====
